---- MODULE Spec2Model ----
(***************************************************************************)
(* Model of src/pool.rs: the Pool of REPL Connections.  A Connection owns  *)
(* three Client handles (eval, go_to_definition, completions); the Pool    *)
(* maps a key to a Connection and routes eval / go_to_definition /         *)
(* update_completions requests by matching the context path against each   *)
(* connection's expr.                                                      *)
(*                                                                         *)
(* Client, Regex, Server and the clojure request generators are external   *)
(* collaborators: every fallible call on them (Client::connect, try_clone, *)
(* write, quit) has its outcome drawn nondeterministically, and the order  *)
(* in which HashMap::iter_mut visits the entries is drawn                  *)
(* nondeterministically as well.                                           *)
(*                                                                         *)
(* Each action is one whole Pool method called by the control thread.      *)
(* `call`, `writes`, `quitCalls` and `errlog` record what the method did:  *)
(* its inputs and result, the Client::write calls it issued (in order),    *)
(* the Client::quit calls issued by the Connections it dropped, and the    *)
(* error! lines it logged.                                                 *)
(***************************************************************************)
EXTENDS Integers, Sequences, FiniteSets, TLC

\* ------------------------------------------------------------------ bounds
\* Number of Connection values that may be built over a run (ids 1..MaxConns).
MaxConns == 2
\* Number of Pool calls over which SpecOrder keeps the per-channel history.
MaxCalls == 3

\* ------------------------------------------------------------ input domains
Keys == {"a", "b"}
Paths == {"src/x.clj", "src/y.cljs"}
\* A Regex is modelled by its pattern; the patterns used are one that matches
\* a single path and the one that matches every path.
MatchAll == ".*"
Exprs == {"src/x.clj", MatchAll}
Langs == {"Clojure", "ClojureScript"}
\* Option<String>: None is <<>>, Some(s) is <<s>>.
None == <<>>
Some(s) == <<s>>
NsOptions == {None, Some("foo.bar")}
Contexts == [path : Paths, ns : NsOptions]
Codes == {"(+ 1 2)"}
Names == {"inc"}
Chans == {"eval", "go_to_definition", "completions"}

\* ---------------------------------------------------------- pure functions
\* Regex::is_match
is_match(expr, path) == expr = MatchAll \/ expr = path

\* Option::unwrap_or
unwrap_or(opt, default) == IF opt = None THEN default ELSE opt[1]

\* The user_ns match with its arms swapped.
user_ns_swapped(lang) == IF lang = "Clojure" THEN "cljs.user" ELSE "user"

\* Connection::connect, the user_ns match
user_ns(lang) == IF lang = "Clojure" THEN "user" ELSE "cljs.user"

\* Connection::connect, the core_ns match
core_ns(lang) == IF lang = "Clojure" THEN "clojure.core" ELSE "cljs.core"

\* The request generators of the clojure module, kept symbolic.
bootstrap == [form |-> "bootstrap", a |-> "", b |-> ""]
code_form(code) == [form |-> "code", a |-> code, b |-> ""]
definition(name) == [form |-> "definition", a |-> name, b |-> ""]
completions(ns, core) == [form |-> "completions", a |-> ns, b |-> core]
clojure_eval(code, ns, lang) == [code |-> code, ns |-> ns, lang |-> lang]

\* format!("[{}]", key)
Label(key) == "[" \o key \o "]"

\* ------------------------------------------------------------------- state
VARIABLES
    conns,      \* Pool.conns: key -> id of its Connection, 0 when absent
    cs,         \* id -> the Connection value built under that id
    call,       \* the last Pool call: inputs, result, mapping before it
    writes,     \* the Client::write calls of the last Pool call, in order
    quitCalls,  \* the Client::quit calls of the last Pool call, in order
    errlog,     \* the error! lines of the last Pool call
    ncalls,     \* SpecOrder: the number of Pool calls made so far
    chanlog,    \* SpecOrder: id -> handle -> the writes it received, in order
    threads,    \* SpecLoops: id -> handle -> where its response thread is
    last        \* SpecLoops: the last step: who took it, the item, the effects

poolVars == <<conns, cs, call, writes, quitCalls, errlog>>
orderVars == <<ncalls, chanlog>>
loopVars == <<threads, last>>
vars == <<poolVars, orderVars, loopVars>>

Ids == 1..MaxConns

NoQuits == [ch \in Chans |-> 0]

\* A slot no Connection has been built in yet.
Unbuilt ==
    [status |-> "unbuilt", everRegistered |-> FALSE, label |-> "",
     sockets |-> {}, loops |-> {}, lang |-> "", user_ns |-> "",
     core_ns |-> "", expr |-> "", quits |-> NoQuits]

NoError == [kind |-> "None", arg |-> ""]
\* The failure of a call on a Client, named by the call that failed.
IoError(origin) == [kind |-> "Io", arg |-> origin]
ConnectionMissing(key) == [kind |-> "ConnectionMissing", arg |-> key]
NoMatchingConnections(path) == [kind |-> "NoMatchingConnections", arg |-> path]

WriteError == IoError("Client::write")

\* error!("Failed to quit REPL cleanly: {}", msg)
QuitLine == "Failed to quit REPL cleanly"

NoContext == [path |-> "", ns |-> None]

\* Text that is split or compared is a sequence of characters.
NoText == <<>>
\* What `responses()` yields when the stream has ended.
NoItem == [kind |-> "None", msg |-> NoText, ms |-> 0, parsed |-> FALSE]
\* The last step was a Pool call of the control thread.
ControlStep ==
    [conn |-> 0, chan |-> "control", item |-> NoItem, sok |-> TRUE, effects |-> <<>>]

Call(op, key, ctx, ok, err, names) ==
    [op |-> op, key |-> key, ctx |-> ctx, ok |-> ok, err |-> err,
     names |-> names, before |-> conns]

\* Pool::new
Init ==
    /\ conns = [k \in Keys |-> 0]
    /\ cs = [i \in Ids |-> Unbuilt]
    /\ call = [op |-> "new", key |-> "", ctx |-> NoContext, ok |-> TRUE,
               err |-> NoError, names |-> <<>>, before |-> [k \in Keys |-> 0]]
    /\ writes = <<>>
    /\ quitCalls = <<>>
    /\ errlog = <<>>
    /\ ncalls = 0
    /\ chanlog = [i \in Ids |-> [ch \in Chans |-> <<>>]]
    /\ threads = [i \in Ids |-> [ch \in Chans |-> "none"]]
    /\ last = ControlStep

Registered == {k \in Keys : conns[k] # 0}

\* The id the next Connection value is built under.
NextId == 1 + Cardinality({i \in Ids : cs[i].status # "unbuilt"})

\* -------------------------------------------------------------- Connection
\* The order in which Connection::connect opens the three sockets.
ChanOrder == <<"eval", "go_to_definition", "completions">>

\* Connection::connect without the `?` on the socket opens: a failed open
\* still yields a Connection value.
ConnectionConnectUnchecked(expr, lang, opened) ==
    [ok |-> TRUE,
     err |-> NoError,
     conn |-> [status |-> "live", everRegistered |-> FALSE, label |-> "",
               sockets |-> {ChanOrder[i] : i \in 1..opened}, loops |-> {},
               lang |-> lang, user_ns |-> user_ns(lang),
               core_ns |-> core_ns(lang), expr |-> expr, quits |-> NoQuits]]

\* Connection::connect.  `opened` is the number of Client::connect calls that
\* succeed before the first one fails (3: none fails); each `?` returns the
\* failure, and the Connection value exists only when all three succeeded.
ConnectionConnect(expr, lang, opened) ==
    [ok |-> opened = 3,
     err |-> IF opened = 3
             THEN NoError
             ELSE IoError("Client::connect " \o ChanOrder[opened + 1]),
     conn |-> [status |-> "live", everRegistered |-> FALSE, label |-> "",
               sockets |-> {ChanOrder[i] : i \in 1..opened}, loops |-> {},
               lang |-> lang, user_ns |-> user_ns(lang),
               core_ns |-> core_ns(lang), expr |-> expr, quits |-> NoQuits]]

\* What the fallible calls of start_response_loops do, in source order: the
\* first that fails returns through its `?`.
LoopOutcomes ==
    {"eval.try_clone", "bootstrap write", "go_to_definition.try_clone",
     "completions.try_clone", "ok"}

\* A start_response_loops that spawns the eval thread before the bootstrap
\* write.
SpawnedBeforeEager(outcome) ==
    CASE outcome = "eval.try_clone" -> {}
      [] outcome = "bootstrap write" -> {"eval"}
      [] outcome = "go_to_definition.try_clone" -> {"eval"}
      [] outcome = "completions.try_clone" -> {"eval", "go_to_definition"}
      [] outcome = "ok" -> Chans

\* The threads spawned before start_response_loops returns with `outcome`.
SpawnedBefore(outcome) ==
    CASE outcome = "eval.try_clone" -> {}
      [] outcome = "bootstrap write" -> {}
      [] outcome = "go_to_definition.try_clone" -> {"eval"}
      [] outcome = "completions.try_clone" -> {"eval", "go_to_definition"}
      [] outcome = "ok" -> Chans

\* Connection::start_response_loops on the Connection `conn` built under `id`:
\* the bootstrap write on the eval handle, then the three spawns.
StartResponseLoops(id, conn, label, outcome) ==
    [ok |-> outcome = "ok",
     err |-> IF outcome = "ok" THEN NoError ELSE IoError(outcome),
     conn |-> [conn EXCEPT !.label = label, !.loops = SpawnedBefore(outcome)],
     writes |-> IF outcome = "eval.try_clone"
                THEN <<>>
                ELSE << [conn |-> id, chan |-> "eval",
                         req |-> clojure_eval(bootstrap, conn.user_ns, conn.lang),
                         ok |-> outcome # "bootstrap write"] >>]

\* A Drop that releases the handles without a quit.
DropSilent(id, conn, qok) ==
    [conn |-> [Unbuilt EXCEPT !.status = "dropped",
                              !.everRegistered = conn.everRegistered,
                              !.label = conn.label,
                              !.loops = conn.loops,
                              !.quits = conn.quits],
     quits |-> <<>>,
     errlog |-> <<>>]

\* Drop for Connection: one quit on the eval handle; `qok` is whether
\* Client::quit succeeded.  The value is gone afterwards; the threads it
\* spawned keep their cloned handles and their label.
Drop(id, conn, qok) ==
    [conn |-> [Unbuilt EXCEPT !.status = "dropped",
                              !.everRegistered = conn.everRegistered,
                              !.label = conn.label,
                              !.loops = conn.loops,
                              !.quits = [conn.quits EXCEPT !["eval"] = @ + 1]],
     quits |-> << [conn |-> id, chan |-> "eval", ok |-> qok] >>,
     errlog |-> IF qok THEN <<>> ELSE <<QuitLine>>]

\* -------------------------------------------------------------------- Pool
\* Pool::connect.  Connection::connect, and_then start_response_loops, map
\* insert.  A Connection whose loops failed to start is dropped by the
\* closure; HashMap::insert returns the previous value, which is dropped.
PoolConnect(key, expr, lang, opened, outcome, qok) ==
    LET c == ConnectionConnect(expr, lang, opened)
        id == NextId
    IN  /\ c.ok => id <= MaxConns
        /\ IF ~c.ok
           THEN /\ call' = Call("connect", key, NoContext, FALSE, c.err, <<>>)
                /\ writes' = <<>>
                /\ quitCalls' = <<>>
                /\ errlog' = <<>>
                /\ UNCHANGED <<conns, cs>>
           ELSE LET s == StartResponseLoops(id, c.conn, Label(key), outcome)
                IN  IF ~s.ok
                    THEN LET d == Drop(id, s.conn, qok)
                         IN  /\ call' = Call("connect", key, NoContext, FALSE,
                                             s.err, <<>>)
                             /\ writes' = s.writes
                             /\ cs' = [cs EXCEPT ![id] = d.conn]
                             /\ quitCalls' = d.quits
                             /\ errlog' = d.errlog
                             /\ UNCHANGED conns
                    ELSE LET old == conns[key]
                             new == [s.conn EXCEPT !.everRegistered = TRUE]
                         IN  /\ call' = Call("connect", key, NoContext, TRUE,
                                             NoError, <<>>)
                             /\ writes' = s.writes
                             /\ conns' = [conns EXCEPT ![key] = id]
                             /\ IF old = 0
                                THEN /\ cs' = [cs EXCEPT ![id] = new]
                                     /\ quitCalls' = <<>>
                                     /\ errlog' = <<>>
                                ELSE LET d == Drop(old, cs[old], qok)
                                     IN  /\ cs' = [cs EXCEPT ![id] = new,
                                                             ![old] = d.conn]
                                         /\ quitCalls' = d.quits
                                         /\ errlog' = d.errlog

\* A disconnect that treats an absent key as already disconnected.
DisconnectResultIdempotent(key) ==
    Call("disconnect", key, NoContext, TRUE, NoError, <<>>)

\* The result of Pool::disconnect.
DisconnectResult(key) ==
    IF conns[key] # 0
    THEN Call("disconnect", key, NoContext, TRUE, NoError, <<>>)
    ELSE Call("disconnect", key, NoContext, FALSE, ConnectionMissing(key), <<>>)

\* A disconnect that quits before removing and returns the quit's failure,
\* leaving the key registered.
PoolDisconnectQuitFirst(key, qok) ==
    /\ writes' = <<>>
    /\ IF conns[key] # 0 /\ ~qok
       THEN /\ call' = Call("disconnect", key, NoContext, FALSE,
                            IoError("Client::quit"), <<>>)
            /\ cs' = [cs EXCEPT ![conns[key]].quits["eval"] = @ + 1]
            /\ quitCalls' = << [conn |-> conns[key], chan |-> "eval", ok |-> FALSE] >>
            /\ errlog' = <<>>
            /\ UNCHANGED conns
       ELSE /\ call' = DisconnectResult(key)
            /\ IF conns[key] # 0
               THEN LET d == Drop(conns[key], cs[conns[key]], qok)
                    IN  /\ conns' = [conns EXCEPT ![key] = 0]
                        /\ cs' = [cs EXCEPT ![conns[key]] = d.conn]
                        /\ quitCalls' = d.quits
                        /\ errlog' = d.errlog
               ELSE /\ quitCalls' = <<>>
                    /\ errlog' = <<>>
                    /\ UNCHANGED <<conns, cs>>

\* Pool::disconnect.  HashMap::remove returns the Connection, which is
\* dropped at the end of the statement.
PoolDisconnect(key, qok) ==
    /\ call' = DisconnectResult(key)
    /\ writes' = <<>>
    /\ IF conns[key] # 0
       THEN LET d == Drop(conns[key], cs[conns[key]], qok)
            IN  /\ conns' = [conns EXCEPT ![key] = 0]
                /\ cs' = [cs EXCEPT ![conns[key]] = d.conn]
                /\ quitCalls' = d.quits
                /\ errlog' = d.errlog
       ELSE /\ quitCalls' = <<>>
            /\ errlog' = <<>>
            /\ UNCHANGED <<conns, cs>>

\* The keys whose Connection's expr matches `path`:
\* conns.iter_mut().filter(|(_, conn)| conn.expr.is_match(&ctx.path))
Matches(path) == {k \in Registered : is_match(cs[conns[k]].expr, path)}

\* The orders in which HashMap::iter_mut may visit the keys of S.
Orderings(S) ==
    {o \in [1..Cardinality(S) -> S] : \A i, j \in DOMAIN o : o[i] = o[j] => i = j}

\* ctx.ns.unwrap_or(conn.user_ns.clone())
SelectNs(ctx, conn) == unwrap_or(ctx.ns, conn.user_ns)

\* One Client::write call: the Connection written to, the handle, the
\* request text and whether the write succeeded.
Write(id, chan, req, ok) == [conn |-> id, chan |-> chan, req |-> req, ok |-> ok]

\* An eval that goes on to the remaining matches after a failed write.
EvalWritesContinue(code, ctx, ord, nfail) ==
    [i \in 1..Len(ord) |->
        Write(conns[ord[i]], "eval",
              clojure_eval(code_form(code), SelectNs(ctx, cs[conns[ord[i]]]),
                           cs[conns[ord[i]]].lang),
              i # nfail)]

\* An eval that writes to the first match only.
EvalWritesFirstOnly(code, ctx, ord, nfail) ==
    [i \in 1..1 |->
        Write(conns[ord[i]], "eval",
              clojure_eval(code_form(code), SelectNs(ctx, cs[conns[ord[i]]]),
                           cs[conns[ord[i]]].lang),
              i # nfail)]

\* The body of the `for (name, conn) in matches` loop of Pool::eval, for the
\* visiting order `ord`.  `nfail` is the position of the write that fails
\* (0: none); its `?` leaves the loop, so later entries are not visited.
EvalWrites(code, ctx, ord, nfail) ==
    [i \in 1..(IF nfail = 0 THEN Len(ord) ELSE nfail) |->
        Write(conns[ord[i]], "eval",
              clojure_eval(code_form(code), SelectNs(ctx, cs[conns[ord[i]]]),
                           cs[conns[ord[i]]].lang),
              i # nfail)]

\* Pool::eval
PoolEval(code, ctx, ord, nfail) ==
    /\ ord \in Orderings(Matches(ctx.path))
    /\ nfail \in 0..Len(ord)
    /\ IF Matches(ctx.path) # {}
       THEN /\ writes' = EvalWrites(code, ctx, ord, nfail)
            /\ call' = IF nfail = 0
                       THEN Call("eval", "", ctx, TRUE, NoError, ord)
                       ELSE Call("eval", "", ctx, FALSE, WriteError, <<>>)
       ELSE /\ writes' = <<>>
            /\ call' = Call("eval", "", ctx, FALSE,
                            NoMatchingConnections(ctx.path), <<>>)
    /\ quitCalls' = <<>>
    /\ errlog' = <<>>
    /\ UNCHANGED <<conns, cs>>

\* What `.find(|(_, conn)| conn.expr.is_match(&ctx.path))` may return: the
\* first match in the visiting order, so any one of the matches (<<k>>), or
\* nothing when there is none (<<>>).
Find(path) == IF Matches(path) = {} THEN {None} ELSE {Some(k) : k \in Matches(path)}

\* The write of Pool::go_to_definition to the Connection found.
DefinitionWrites(name, ctx, found, wok) ==
    IF found = None
    THEN <<>>
    ELSE << Write(conns[found[1]], "go_to_definition",
                  clojure_eval(definition(name),
                               SelectNs(ctx, cs[conns[found[1]]]),
                               cs[conns[found[1]]].lang),
                  wok) >>

\* A go_to_definition that does nothing, and succeeds, without a match.
DefinitionResultSilent(ctx, found, wok) ==
    IF found # None /\ ~wok
    THEN Call("go_to_definition", "", ctx, FALSE, WriteError, <<>>)
    ELSE Call("go_to_definition", "", ctx, TRUE, NoError, <<>>)

\* The result of Pool::go_to_definition.
DefinitionResult(ctx, found, wok) ==
    IF found = None
    THEN Call("go_to_definition", "", ctx, FALSE,
              NoMatchingConnections(ctx.path), <<>>)
    ELSE IF wok
         THEN Call("go_to_definition", "", ctx, TRUE, NoError, <<>>)
         ELSE Call("go_to_definition", "", ctx, FALSE, WriteError, <<>>)

\* Pool::go_to_definition
PoolGoToDefinition(name, ctx, found, wok) ==
    /\ found \in Find(ctx.path)
    /\ writes' = DefinitionWrites(name, ctx, found, wok)
    /\ call' = DefinitionResult(ctx, found, wok)
    /\ quitCalls' = <<>>
    /\ errlog' = <<>>
    /\ UNCHANGED <<conns, cs>>

\* An update_completions that writes to every match (filter, not find).
CompletionsWritesMulticast(ctx, found, wok) ==
    LET ord == CHOOSE o \in Orderings(Matches(ctx.path)) : TRUE
    IN  [i \in 1..Len(ord) |->
            LET conn == cs[conns[ord[i]]]
                ns == SelectNs(ctx, conn)
            IN  Write(conns[ord[i]], "completions",
                      clojure_eval(completions(ns, conn.core_ns), ns, conn.lang),
                      wok)]

\* The write of Pool::update_completions to the Connection found.
CompletionsWrites(ctx, found, wok) ==
    IF found = None
    THEN <<>>
    ELSE LET conn == cs[conns[found[1]]]
             ns == SelectNs(ctx, conn)
         IN  << Write(conns[found[1]], "completions",
                      clojure_eval(completions(ns, conn.core_ns), ns, conn.lang),
                      wok) >>

\* An update_completions that fails without a match, as go_to_definition does.
CompletionsResultNoMatchError(ctx, found, wok) ==
    IF found = None
    THEN Call("update_completions", "", ctx, FALSE,
              NoMatchingConnections(ctx.path), <<>>)
    ELSE IF wok
         THEN Call("update_completions", "", ctx, TRUE, NoError, <<>>)
         ELSE Call("update_completions", "", ctx, FALSE, WriteError, <<>>)

\* An update_completions that ignores the result of its write.
CompletionsResultIgnoresWrite(ctx, found, wok) ==
    Call("update_completions", "", ctx, TRUE, NoError, <<>>)

\* The result of Pool::update_completions: the `?` on the write returns its
\* failure; without a match the `if let` body is skipped.
CompletionsResult(ctx, found, wok) ==
    IF found # None /\ ~wok
    THEN Call("update_completions", "", ctx, FALSE, WriteError, <<>>)
    ELSE Call("update_completions", "", ctx, TRUE, NoError, <<>>)

\* Pool::update_completions
PoolUpdateCompletions(ctx, found, wok) ==
    /\ found \in Find(ctx.path)
    /\ writes' = CompletionsWrites(ctx, found, wok)
    /\ call' = CompletionsResult(ctx, found, wok)
    /\ quitCalls' = <<>>
    /\ errlog' = <<>>
    /\ UNCHANGED <<conns, cs>>

\* ----------------------------------------------------------- specification
Connect ==
    \E key \in Keys, expr \in Exprs, lang \in Langs :
        \/ \E opened \in 0..2 : PoolConnect(key, expr, lang, opened, "ok", TRUE)
        \/ \E outcome \in LoopOutcomes, qok \in BOOLEAN :
               PoolConnect(key, expr, lang, 3, outcome, qok)

Disconnect == \E key \in Keys, qok \in BOOLEAN : PoolDisconnect(key, qok)

Eval ==
    \E code \in Codes, ctx \in Contexts :
        \E ord \in Orderings(Matches(ctx.path)) :
            \E nfail \in 0..Len(ord) : PoolEval(code, ctx, ord, nfail)

GoToDefinition ==
    \E name \in Names, ctx \in Contexts, wok \in BOOLEAN :
        \E found \in Find(ctx.path) : PoolGoToDefinition(name, ctx, found, wok)

UpdateCompletions ==
    \E ctx \in Contexts, wok \in BOOLEAN :
        \E found \in Find(ctx.path) : PoolUpdateCompletions(ctx, found, wok)

\* The control thread alone: the Pool calls, in any order.
Next ==
    \/ Connect /\ UNCHANGED <<orderVars, loopVars>>
    \/ Disconnect /\ UNCHANGED <<orderVars, loopVars>>
    \/ Eval /\ UNCHANGED <<orderVars, loopVars>>
    \/ GoToDefinition /\ UNCHANGED <<orderVars, loopVars>>
    \/ UpdateCompletions /\ UNCHANGED <<orderVars, loopVars>>

Spec == Init /\ [][Next]_vars

\* ------------------------------------------------- per-channel write order
\* A handle's history with the writes `ws` of call number `n` put at its
\* front instead of its end.
RECURSIVE DeliverFront(_, _, _)
DeliverFront(log, ws, n) ==
    IF ws = <<>>
    THEN log
    ELSE LET w == Head(ws)
         IN  DeliverFront(
                 [log EXCEPT ![w.conn][w.chan] =
                     <<[call |-> n, req |-> w.req, ok |-> w.ok]>> \o @],
                 Tail(ws), n)

\* Client::write is a synchronous write on the handle's socket: the writes
\* `ws` of call number `n` reach their handles in the order they are issued,
\* after everything written before.
RECURSIVE Deliver(_, _, _)
Deliver(log, ws, n) ==
    IF ws = <<>>
    THEN log
    ELSE LET w == Head(ws)
         IN  Deliver(
                 [log EXCEPT ![w.conn][w.chan] =
                     Append(@, [call |-> n, req |-> w.req, ok |-> w.ok])],
                 Tail(ws), n)

\* The call just made is call number ncalls + 1; its writes are delivered.
Logged ==
    /\ ncalls' = ncalls + 1
    /\ chanlog' = Deliver(chanlog, writes', ncalls + 1)
    /\ UNCHANGED loopVars

\* The Pool calls with the history of every handle kept, for MaxCalls calls.
OrderNext ==
    /\ ncalls < MaxCalls
    /\ \/ Connect /\ Logged
       \/ Disconnect /\ Logged
       \/ Eval /\ Logged
       \/ GoToDefinition /\ Logged
       \/ UpdateCompletions /\ Logged

SpecOrder == Init /\ [][OrderNext]_vars

\* ---------------------------------------------------------- response loops
\* msg.split('\n'): the pieces between the line feeds, in order.
RECURSIVE Split(_)
Split(msg) ==
    IF \E i \in DOMAIN msg : msg[i] = "\n"
    THEN LET i == CHOOSE n \in DOMAIN msg :
                      msg[n] = "\n" /\ \A j \in 1..(n - 1) : msg[j] # "\n"
         IN  <<SubSeq(msg, 1, i - 1)>> \o Split(SubSeq(msg, i + 1, Len(msg)))
    ELSE <<msg>>

\* One call on a Server handle (log_writelns, err_writeln, go_to,
\* update_completions) or one line of the log macros (error!, info!): its
\* tag or format string, and its argument text.
Effect(op, head, body) == [op |-> op, head |-> head, body |-> body]

\* The calls that go through the Server handle.
ServerOps == {"log_writelns", "err_writeln", "go_to", "update_completions"}

\* The `log` closure of the eval thread.
log(eval_key, tag_suffix, line_prefix, msg) ==
    Effect("log_writelns", eval_key \o " " \o tag_suffix,
           [i \in DOMAIN Split(msg) |-> line_prefix \o Split(msg)[i]])

\* The line prefix of Out and Err responses, ";; ".
CommentPrefix == <<";", ";", " ">>

\* The failure a Server call returns.
ServerFailure == <<"r", "p", "c">>

\* An eval thread that tags its lines with the response kind only.
EvalLoopBodyUnlabelled(eval_key, item) ==
    CASE item.kind = "Ret" ->
             << log("", "ret " \o ToString(item.ms) \o "ms", <<>>, item.msg) >>
      [] item.kind = "Tap" ->
             << log("", "tap " \o ToString(item.ms) \o "ms", <<>>, item.msg) >>
      [] item.kind = "Out" -> << log("", "out", CommentPrefix, item.msg) >>
      [] item.kind = "Err" -> << log("", "err", CommentPrefix, item.msg) >>
      [] item.kind = "TransportErr" ->
             << Effect("err_writeln", "Error from eval connection: ", <<item.msg>>) >>

\* The match of the eval thread on one item of eval.responses().
EvalLoopBody(eval_key, item) ==
    CASE item.kind = "Ret" ->
             << log(eval_key, "ret " \o ToString(item.ms) \o "ms", <<>>, item.msg) >>
      [] item.kind = "Tap" ->
             << log(eval_key, "tap " \o ToString(item.ms) \o "ms", <<>>, item.msg) >>
      [] item.kind = "Out" -> << log(eval_key, "out", CommentPrefix, item.msg) >>
      [] item.kind = "Err" -> << log(eval_key, "err", CommentPrefix, item.msg) >>
      [] item.kind = "TransportErr" ->
             << Effect("err_writeln", "Error from eval connection: ", <<item.msg>>) >>

\* The text of the sentinel the definition thread compares with, ":unknown".
Unknown == <<":", "u", "n", "k", "n", "o", "w", "n">>

\* A definition thread that reports every payload it cannot parse.
DefinitionLoopBodyReportsAll(item, sok) ==
    CASE item.kind = "Ret" ->
             IF item.parsed
             THEN << Effect("go_to", "", <<item.msg>>) >> \o
                  (IF sok
                   THEN <<>>
                   ELSE << Effect("err_writeln", "Error while going to definition: ",
                                  <<ServerFailure>>) >>)
             ELSE << Effect("err_writeln", "Location unknown", <<>>) >>
      [] item.kind = "Err" ->
             << Effect("error!", "Error message from go to location: ", <<item.msg>>) >>
      [] item.kind \in {"Tap", "Out"} -> <<>>
      [] item.kind = "TransportErr" ->
             << Effect("err_writeln", "Error from definition connection: ",
                       <<item.msg>>) >>

\* The match of the definition thread on one item of
\* go_to_definition.responses().  `item.parsed` is whether
\* util::parse_location returns a location for the payload; `sok` is whether
\* Server::go_to succeeds.
DefinitionLoopBody(item, sok) ==
    CASE item.kind = "Ret" ->
             IF item.parsed
             THEN << Effect("go_to", "", <<item.msg>>) >> \o
                  (IF sok
                   THEN <<>>
                   ELSE << Effect("err_writeln", "Error while going to definition: ",
                                  <<ServerFailure>>) >>)
             ELSE IF item.msg = Unknown
                  THEN << Effect("err_writeln", "Location unknown", <<>>) >>
                  ELSE <<>>
      [] item.kind = "Err" ->
             << Effect("error!", "Error message from go to location: ", <<item.msg>>) >>
      [] item.kind \in {"Tap", "Out"} -> <<>>
      [] item.kind = "TransportErr" ->
             << Effect("err_writeln", "Error from definition connection: ",
                       <<item.msg>>) >>

\* The match of the completion thread on one item of
\* completions.responses().  `item.parsed` is whether
\* util::parse_completions returns a list for the payload; `sok` is whether
\* Server::update_completions succeeds.
CompletionsLoopBody(item, sok) ==
    CASE item.kind = "Ret" ->
             IF item.parsed
             THEN << Effect("info!", "Updating {} completions!", <<item.msg>>),
                     Effect("update_completions", "", <<item.msg>>) >> \o
                  (IF sok
                   THEN <<>>
                   ELSE << Effect("err_writeln", "Error while completing: ",
                                  <<ServerFailure>>) >>)
             ELSE <<>>
      [] item.kind = "Err" ->
             << Effect("error!", "Error message from completions: ", <<item.msg>>) >>
      [] item.kind \in {"Tap", "Out"} -> <<>>
      [] item.kind = "TransportErr" ->
             << Effect("err_writeln", "Error from completion connection: ",
                       <<item.msg>>) >>

\* What the thread of handle `ch` of Connection `id` does with `item`.
LoopBody(id, ch, item, sok) ==
    CASE ch = "eval" -> EvalLoopBody(cs[id].label, item)
      [] ch = "go_to_definition" -> DefinitionLoopBody(item, sok)
      [] ch = "completions" -> CompletionsLoopBody(item, sok)

\* The items a stream may yield: Ok(Response) of each kind, or Err(msg).
Response(kind, msg, ms, parsed) ==
    [kind |-> kind, msg |-> msg, ms |-> ms, parsed |-> parsed]

ItemsOf(ch) ==
    CASE ch = "eval" ->
             {Response("Ret", <<"1", "\n", "2">>, 5, FALSE),
              Response("Tap", <<"3">>, 7, FALSE),
              Response("Out", <<"h", "i">>, 0, FALSE),
              Response("Err", <<"n", "o">>, 0, FALSE),
              Response("TransportErr", <<"e", "o", "f">>, 0, FALSE)}
      [] ch = "go_to_definition" ->
             {Response("Ret", m, 1, p) :
                  m \in {<<"f", ":", "1">>, Unknown, <<"?">>}, p \in BOOLEAN}
             \cup {Response("Tap", <<"3">>, 7, FALSE),
                   Response("Out", <<"h", "i">>, 0, FALSE),
                   Response("Err", <<"n", "o">>, 0, FALSE),
                   Response("TransportErr", <<"e", "o", "f">>, 0, FALSE)}
      [] ch = "completions" ->
             {Response("Ret", <<"(", ")">>, 1, p) : p \in BOOLEAN}
             \cup {Response("Tap", <<"3">>, 7, FALSE),
                   Response("Out", <<"h", "i">>, 0, FALSE),
                   Response("Err", <<"n", "o">>, 0, FALSE),
                   Response("TransportErr", <<"e", "o", "f">>, 0, FALSE)}

\* thread::spawn for every thread start_response_loops spawned in the call
\* just made.  The thread is taken into its for loop: responses() is taken
\* to yield the stream (its failure panics the thread at `expect`, before
\* the first item).
Spawned ==
    threads' = [i \in Ids |-> [ch \in Chans |->
                   IF threads[i][ch] = "none" /\ ch \in cs'[i].loops
                   THEN "running"
                   ELSE threads[i][ch]]]

\* A Pool call seen from the threads.
Control ==
    /\ Spawned
    /\ last' = ControlStep
    /\ UNCHANGED orderVars

\* A transport error that ends every running thread of the Connection.
ThreadsAfterShared(id, ch, item) ==
    IF item.kind = "TransportErr"
    THEN [threads EXCEPT ![id] = [c \in Chans |->
             IF threads[id][c] = "running" THEN "ended" ELSE threads[id][c]]]
    ELSE threads

\* A thread that leaves its loop on a transport error.
ThreadsAfterBreak(id, ch, item) ==
    IF item.kind = "TransportErr"
    THEN [threads EXCEPT ![id][ch] = "ended"]
    ELSE threads

\* The threads after the thread of `ch` of `id` has handled `item`: every
\* arm of its match falls through to the next iteration of the for loop.
ThreadsAfter(id, ch, item) == threads

\* One iteration of the for loop of a thread: the stream yields `item`.
LoopReceive(id, ch, item, sok) ==
    /\ threads[id][ch] = "running"
    /\ item \in ItemsOf(ch)
    /\ sok \/ (item.kind = "Ret" /\ item.parsed /\ ch # "eval")
    /\ threads' = ThreadsAfter(id, ch, item)
    /\ last' = [conn |-> id, chan |-> ch, item |-> item, sok |-> sok,
                effects |-> LoopBody(id, ch, item, sok)]
    /\ UNCHANGED <<poolVars, orderVars>>

\* The handles that keep the socket of `ch` of `id` open on this side: the
\* Client of the Connection value, and the try_clone the thread owns.
HandlesOpen(id, ch) ==
    (IF cs[id].status = "live" THEN {"connection"} ELSE {})
    \cup (IF threads[id][ch] = "running" THEN {"thread"} ELSE {})

\* A thread that takes its Connection out of the Pool when its stream ends.
LoopEndUnregisters(id, ch) ==
    /\ threads[id][ch] = "running"
    /\ threads' = [threads EXCEPT ![id][ch] = "ended"]
    /\ last' = [conn |-> id, chan |-> ch, item |-> NoItem, sok |-> TRUE,
                effects |-> <<>>]
    /\ conns' = [k \in Keys |-> IF conns[k] = id THEN 0 ELSE conns[k]]
    /\ UNCHANGED <<cs, call, writes, quitCalls, errlog, orderVars>>

\* The stream of a thread ends, because the peer closed the socket or
\* because no handle keeps it open: the for loop is left and the thread
\* returns.
LoopEnd(id, ch) ==
    /\ threads[id][ch] = "running"
    /\ threads' = [threads EXCEPT ![id][ch] = "ended"]
    /\ last' = [conn |-> id, chan |-> ch, item |-> NoItem, sok |-> TRUE,
                effects |-> <<>>]
    /\ UNCHANGED <<poolVars, orderVars>>

\* The inputs of the Pool calls in the specifications with threads: one
\* pattern and one language, every socket opened, every quit delivered.
ThreadedConnect(keys, outcomes) ==
    \E key \in keys, outcome \in outcomes :
        PoolConnect(key, MatchAll, "Clojure", 3, outcome, TRUE)

ThreadedDisconnect(keys) == \E key \in keys : PoolDisconnect(key, TRUE)

DefaultContext == [path |-> "src/x.clj", ns |-> None]

ThreadedEval ==
    \E code \in Codes :
        \E ord \in Orderings(Matches(DefaultContext.path)) :
            \E nfail \in 0..Len(ord) : PoolEval(code, DefaultContext, ord, nfail)

ThreadedGoToDefinition ==
    \E name \in Names, wok \in BOOLEAN :
        \E found \in Find(DefaultContext.path) :
            PoolGoToDefinition(name, DefaultContext, found, wok)

ThreadedUpdateCompletions ==
    \E wok \in BOOLEAN :
        \E found \in Find(DefaultContext.path) :
            PoolUpdateCompletions(DefaultContext, found, wok)

\* Connections come and go while their threads consume every kind of item.
ItemsNext ==
    \/ ThreadedConnect(Keys, LoopOutcomes) /\ Control
    \/ ThreadedDisconnect(Keys) /\ Control
    \/ \E id \in Ids, ch \in Chans, sok \in BOOLEAN :
           \E item \in ItemsOf(ch) : LoopReceive(id, ch, item, sok)

SpecItems == Init /\ [][ItemsNext]_vars

\* The items of the streams in SpecLoops: a response and a transport error.
LoopItems(ch) == {item \in ItemsOf(ch) : item.kind \in {"Tap", "TransportErr"}}

\* The control thread and the response threads, interleaved, until the
\* streams end.
LoopsNext ==
    \/ ThreadedConnect({"a"}, {"ok"}) /\ Control
    \/ ThreadedDisconnect({"a"}) /\ Control
    \/ ThreadedEval /\ Control
    \/ ThreadedGoToDefinition /\ Control
    \/ ThreadedUpdateCompletions /\ Control
    \/ \E id \in Ids, ch \in Chans :
           \E item \in LoopItems(ch) : LoopReceive(id, ch, item, TRUE)
    \/ \E id \in Ids, ch \in Chans : LoopEnd(id, ch)

SpecLoops == Init /\ [][LoopsNext]_vars

\* A thread blocked in its stream returns once no handle keeps the socket
\* open on this side.
ReleasedEnd == \E id \in Ids, ch \in Chans : HandlesOpen(id, ch) = {} /\ LoopEnd(id, ch)

\* The peer closes the eval socket once Drop has sent it the quit line;
\* the other two sockets are sent nothing.
QuitEnd == \E id \in Ids : cs[id].quits["eval"] > 0 /\ LoopEnd(id, "eval")

\* The scheduler runs a thread whose blocked receive can return.
SpecLoopsFair == SpecLoops /\ WF_vars(ReleasedEnd) /\ WF_vars(QuitEnd)

\* ------------------------------------------------------------------ claims
\* The Connection a key maps to is complete: built from three opened
\* sockets, not dropped, with its three response loops spawned.
Complete(id) ==
    /\ cs[id].status = "live"
    /\ cs[id].sockets = Chans
    /\ cs[id].loops = Chans

\* C1: Pool.connect is all-or-nothing.  After a failed connect the
\* key->Connection mapping is the mapping before the call; and in every
\* reachable state each registered key maps to one Connection of its own,
\* whose three sockets were opened and whose three loops were started.
C1_ConnectAllOrNothing ==
    /\ (call.op = "connect" /\ ~call.ok) => conns = call.before
    /\ \A k \in Registered : conns[k] \in Ids /\ Complete(conns[k])
    /\ \A k1, k2 \in Registered : conns[k1] = conns[k2] => k1 = k2

\* A connect on a registered key has failed at its second socket open.
C1_Witness ==
    /\ call.op = "connect"
    /\ ~call.ok
    /\ call.err = IoError("Client::connect go_to_definition")
    /\ call.before[call.key] # 0
    /\ conns[call.key] # 0

\* C2: disconnect of a key that is not registered fails with
\* ConnectionMissing carrying that key, leaves the mapping as it was and
\* sends no quit.
C2_DisconnectAbsent ==
    (call.op = "disconnect" /\ call.before[call.key] = 0) =>
        /\ ~call.ok
        /\ call.err = ConnectionMissing(call.key)
        /\ conns = call.before
        /\ quitCalls = <<>>

\* A disconnect of an absent key while another key is registered.
C2_Witness ==
    /\ call.op = "disconnect"
    /\ call.before[call.key] = 0
    /\ Registered # {}

\* C3: disconnect of a registered key returns Ok and removes the key, also
\* when the quit fails; the quit failure is logged and nothing else.
C3_TeardownNeverFails ==
    (call.op = "disconnect" /\ call.before[call.key] # 0) =>
        /\ call.ok
        /\ call.err = NoError
        /\ conns = [call.before EXCEPT ![call.key] = 0]
        /\ errlog = IF \E i \in DOMAIN quitCalls : ~quitCalls[i].ok
                    THEN <<QuitLine>>
                    ELSE <<>>

\* A disconnect of a registered key whose quit failed.
C3_Witness ==
    /\ call.op = "disconnect"
    /\ call.before[call.key] # 0
    /\ quitCalls # <<>>
    /\ ~quitCalls[1].ok

\* The ids that left the mapping in the last call.
Removed == {call.before[k] : k \in {j \in Keys : call.before[j] # 0 /\ conns[j] # call.before[j]}}

\* C4: a Connection that leaves the pool (disconnect, or replacement by a
\* successful connect under its key) gets exactly one quit, on its eval
\* handle, in the call that removes it; no quit is ever sent on a
\* definition or completion handle, nor on a Connection still registered.
C4_QuitOnRemoval ==
    /\ \A id \in Removed :
          /\ Len(quitCalls) = 1
          /\ quitCalls[1].conn = id
          /\ quitCalls[1].chan = "eval"
    /\ \A id \in Ids :
          /\ cs[id].quits["go_to_definition"] = 0
          /\ cs[id].quits["completions"] = 0
          /\ (\E k \in Keys : conns[k] = id) => cs[id].quits["eval"] = 0
          /\ (cs[id].everRegistered /\ ~(\E k \in Keys : conns[k] = id))
                => cs[id].quits["eval"] = 1
    /\ \A i \in DOMAIN quitCalls :
          /\ quitCalls[i].chan = "eval"
          /\ ~(\E k \in Keys : conns[k] = quitCalls[i].conn)

\* A successful connect has replaced the Connection of its key.
C4_Witness ==
    /\ call.op = "connect"
    /\ call.ok
    /\ call.before[call.key] # 0
    /\ Removed = {call.before[call.key]}

\* The keys whose Connection matches the path of the last call.  The routing
\* calls leave the mapping and the Connections as they are, so this is the
\* set of matches the call saw.
Matched == {k \in Keys : conns[k] # 0 /\ is_match(cs[conns[k]].expr, call.ctx.path)}

\* The write calls of the last call that went to handle `chan` of `id`.
WritesTo(id, chan) ==
    {i \in DOMAIN writes : writes[i].conn = id /\ writes[i].chan = chan}

\* C5: when eval returns Ok, every registered Connection whose expr matches
\* ctx.path got exactly one write, on its eval handle; nothing else was
\* written; and the returned names are the matched keys, each once.
C5_EvalMulticast ==
    (call.op = "eval" /\ call.ok) =>
        /\ \A k \in Matched : Cardinality(WritesTo(conns[k], "eval")) = 1
        /\ \A i \in DOMAIN writes :
              /\ writes[i].chan = "eval"
              /\ writes[i].ok
              /\ \E k \in Matched : conns[k] = writes[i].conn
        /\ {call.names[i] : i \in DOMAIN call.names} = Matched
        /\ Len(call.names) = Cardinality(Matched)

\* An eval has succeeded with two matching Connections.
C5_Witness ==
    /\ call.op = "eval"
    /\ call.ok
    /\ Cardinality(Matched) = 2

\* C6: without a matching Connection, eval and go_to_definition write
\* nothing and fail with NoMatchingConnections carrying ctx.path.
C6_NoMatchFails ==
    (call.op \in {"eval", "go_to_definition"} /\ Matched = {}) =>
        /\ writes = <<>>
        /\ ~call.ok
        /\ call.err = NoMatchingConnections(call.ctx.path)

\* A go_to_definition whose path matches none of the registered Connections.
C6_Witness ==
    /\ call.op = "go_to_definition"
    /\ Matched = {}
    /\ Registered # {}

\* The handle each single-dispatch call writes to.
ChanOf(op) == IF op = "go_to_definition" THEN "go_to_definition" ELSE "completions"

\* C7: with one or more matches, go_to_definition and update_completions
\* issue exactly one write, to one matching Connection, on its definition
\* (respectively completion) handle.
C7_SingleDispatch ==
    (call.op \in {"go_to_definition", "update_completions"} /\ Matched # {}) =>
        /\ Len(writes) = 1
        /\ writes[1].chan = ChanOf(call.op)
        /\ \E k \in Matched : conns[k] = writes[1].conn

\* An update_completions with two matching Connections.
C7_Witness ==
    /\ call.op = "update_completions"
    /\ Cardinality(Matched) = 2
    /\ Len(writes) = 1

\* C8: update_completions without a matching Connection returns Ok and
\* writes nothing.
C8_CompletionsNoMatch ==
    (call.op = "update_completions" /\ Matched = {}) =>
        /\ call.ok
        /\ call.err = NoError
        /\ writes = <<>>

\* An update_completions whose path matches none of the registered
\* Connections.
C8_Witness ==
    /\ call.op = "update_completions"
    /\ Matched = {}
    /\ Registered # {}

\* C9, as claimed: update_completions returns Ok in every state and for
\* every context.
C9_AlwaysOk == call.op = "update_completions" => call.ok

\* C9, amended: update_completions returns Ok when no Connection matches or
\* when its write to the selected Connection succeeds; when that write
\* fails, it returns the write's error.
C9_OkUnlessWriteFails ==
    call.op = "update_completions" =>
        /\ call.ok <=> (\A i \in DOMAIN writes : writes[i].ok)
        /\ call.err = IF call.ok THEN NoError ELSE WriteError

\* An update_completions whose write failed.
C9_Witness ==
    /\ call.op = "update_completions"
    /\ Len(writes) = 1
    /\ ~writes[1].ok
    /\ ~call.ok

\* The user namespace of each language.
UserNsOf(lang) == IF lang = "ClojureScript" THEN "cljs.user" ELSE "user"

\* The namespace of every request of the last routing call, and the user_ns
\* of every Connection that exists.
C10_Requests ==
    /\ call.op \in {"eval", "go_to_definition", "update_completions"} =>
          \A i \in DOMAIN writes :
              writes[i].req.ns = IF call.ctx.ns = None
                                 THEN UserNsOf(cs[writes[i].conn].lang)
                                 ELSE call.ctx.ns[1]
    /\ \A id \in Ids :
          cs[id].status = "live" =>
              /\ cs[id].lang \in Langs
              /\ cs[id].user_ns = UserNsOf(cs[id].lang)

\* C10: every request written by eval, go_to_definition and
\* update_completions carries ctx.ns when present, and otherwise the
\* user_ns of the Connection written to, which is "user" for Clojure and
\* "cljs.user" for ClojureScript and stays what it was while the Connection
\* exists.
C10_NamespaceSelection ==
    /\ [] C10_Requests
    /\ [][\A id \in Ids :
             (cs[id].status = "live" /\ cs'[id].status = "live") =>
                 /\ cs'[id].user_ns = cs[id].user_ns
                 /\ cs'[id].lang = cs[id].lang]_vars

\* An eval without a namespace override has written to a Clojure and to a
\* ClojureScript Connection.
C10_Witness ==
    /\ call.op = "eval"
    /\ call.ctx.ns = None
    /\ Len(writes) = 2
    /\ writes[1].req.ns = "user"
    /\ writes[2].req.ns = "cljs.user"

\* C19: when a write of eval fails, eval returns that write's error and no
\* key list; the failed write is the last one issued, so no match later in
\* the visiting order is written to; the writes before it went, once each,
\* to matching Connections and stand; the mapping is unchanged.
C19_EvalStopsAtFirstFailure ==
    (call.op = "eval" /\ ~call.ok /\ Matched # {}) =>
        /\ call.err = WriteError
        /\ call.names = <<>>
        /\ conns = call.before
        /\ writes # <<>>
        /\ Len(writes) <= Cardinality(Matched)
        /\ \A i \in DOMAIN writes :
              /\ writes[i].ok <=> i < Len(writes)
              /\ writes[i].chan = "eval"
              /\ \E k \in Matched : conns[k] = writes[i].conn
              /\ \A j \in DOMAIN writes : writes[j].conn = writes[i].conn => j = i

\* An eval with two matches whose first write failed: one write was issued.
C19_Witness ==
    /\ call.op = "eval"
    /\ ~call.ok
    /\ Cardinality(Matched) = 2
    /\ Len(writes) = 1

\* C20: no response loop has been spawned for a Connection that was never
\* registered, so a connect that returns an error has spawned none.
C20_LoopsAllOrNothing ==
    \A id \in Ids : ~cs[id].everRegistered => cs[id].loops = {}

\* C13: on every handle of every Connection, the writes received are in the
\* order of the Pool calls that issued them.
C13_PerChannelOrder ==
    \A id \in Ids, ch \in Chans :
        \A i, j \in DOMAIN chanlog[id][ch] :
            i < j => chanlog[id][ch][i].call <= chanlog[id][ch][j].call

\* A handle has received the writes of two later calls after the write of
\* the connect.
C13_Witness ==
    \E id \in Ids :
        /\ Len(chanlog[id]["eval"]) = 3
        /\ chanlog[id]["eval"][2].call < chanlog[id]["eval"][3].call

\* C14: the first write on the eval handle of every Connection is the
\* bootstrap request and no later one is; it was written, successfully,
\* before the eval loop was spawned and before the key was registered, so
\* every request routed by eval follows it; a connect writes nothing on a
\* definition or completion handle.
C14_BootstrapFirst ==
    /\ \A id \in Ids :
          LET e == chanlog[id]["eval"]
          IN  /\ \A i \in DOMAIN e : (e[i].req.code = bootstrap) <=> (i = 1)
              /\ ("eval" \in cs[id].loops \/ \E k \in Keys : conns[k] = id) =>
                    /\ e # <<>>
                    /\ e[1].ok
              /\ \A i \in DOMAIN chanlog[id]["go_to_definition"] :
                    chanlog[id]["go_to_definition"][i].req.code.form = "definition"
              /\ \A i \in DOMAIN chanlog[id]["completions"] :
                    chanlog[id]["completions"][i].req.code.form = "completions"
    /\ call.op = "connect" =>
          \A i \in DOMAIN writes :
              /\ writes[i].chan = "eval"
              /\ writes[i].req.code = bootstrap

\* A registered Connection has received an eval request after its
\* bootstrap request.
C14_Witness ==
    \E k \in Registered :
        /\ Len(chanlog[conns[k]]["eval"]) = 2
        /\ chanlog[conns[k]]["eval"][1].req.code = bootstrap
        /\ chanlog[conns[k]]["eval"][2].req.code.form = "code"

\* The Server calls among the effects of the last step.
ServerCalls(op) == {i \in DOMAIN last.effects : last.effects[i].op = op}

NoServerCall == \A i \in DOMAIN last.effects : last.effects[i].op \notin ServerOps

\* C11: on a definition handle, a Ret whose payload parses as a location
\* gives exactly one go_to call, and one error line iff that call fails; a
\* Ret that does not parse gives no go_to call, and exactly one error line
\* when the payload is the unknown sentinel, no Server call at all
\* otherwise; Tap and Out give no Server call.
C11_DefinitionLoop ==
    last.chan = "go_to_definition" =>
        /\ (last.item.kind = "Ret" /\ last.item.parsed) =>
              /\ Cardinality(ServerCalls("go_to")) = 1
              /\ Cardinality(ServerCalls("err_writeln")) = IF last.sok THEN 0 ELSE 1
              /\ ServerCalls("log_writelns") \cup ServerCalls("update_completions") = {}
        /\ (last.item.kind = "Ret" /\ ~last.item.parsed /\ last.item.msg = Unknown) =>
              /\ Len(last.effects) = 1
              /\ last.effects[1].op = "err_writeln"
        /\ (last.item.kind = "Ret" /\ ~last.item.parsed /\ last.item.msg # Unknown) =>
              NoServerCall
        /\ last.item.kind \in {"Tap", "Out"} => NoServerCall

\* A definition thread has received the unknown sentinel, which did not
\* parse, and has written its error line.
C11_Witness ==
    /\ last.chan = "go_to_definition"
    /\ last.item.kind = "Ret"
    /\ ~last.item.parsed
    /\ last.item.msg = Unknown
    /\ last.effects # <<>>

\* The tag suffix of each kind of response.
KindTag(item) ==
    CASE item.kind = "Ret" -> "ret " \o ToString(item.ms) \o "ms"
      [] item.kind = "Tap" -> "tap " \o ToString(item.ms) \o "ms"
      [] item.kind = "Out" -> "out"
      [] item.kind = "Err" -> "err"

\* C18: every Ret, Tap, Out or Err the eval thread of the Connection
\* registered under key K consumes gives exactly one log_writelns call,
\* tagged "[K]" followed by the response kind, and so never the tag of
\* another key.
C18_LogLabel ==
    \A k \in Keys :
        (/\ conns[k] # 0
         /\ last.conn = conns[k]
         /\ last.chan = "eval"
         /\ last.item.kind \in {"Ret", "Tap", "Out", "Err"}) =>
            /\ Len(last.effects) = 1
            /\ last.effects[1].op = "log_writelns"
            /\ last.effects[1].head = "[" \o k \o "] " \o KindTag(last.item)
            /\ \A k2 \in Keys \ {k} :
                  last.effects[1].head # "[" \o k2 \o "] " \o KindTag(last.item)

\* With two keys registered, the eval thread of the Connection of "b" has
\* logged a Ret.
C18_Witness ==
    /\ conns["a"] # 0
    /\ conns["b"] # 0
    /\ last.conn = conns["b"]
    /\ last.chan = "eval"
    /\ last.item.kind = "Ret"
    /\ last.effects[1].head = "[b] ret 5ms"

\* The threads other than the one of handle ch of Connection id.
Others(id, ch) == {t \in Ids \X Chans : t # <<id, ch>>}

\* C12: a transport error consumed by one response thread changes no other
\* thread, of the same Connection or of another: each one that was running
\* is still running and takes the responses that follow.
C12_ErrorsStayLocal ==
    [][last'.item.kind = "TransportErr" =>
          \A t \in Others(last'.conn, last'.chan) :
              /\ threads'[t[1]][t[2]] = threads[t[1]][t[2]]
              /\ threads[t[1]][t[2]] = "running" =>
                    \E item \in LoopItems(t[2]) :
                        ENABLED LoopReceive(t[1], t[2], item, TRUE)]_vars

\* An eval thread has consumed a transport error while a thread of the same
\* Connection and a thread of another Connection are running.
C12_Witness ==
    /\ last.chan = "eval"
    /\ last.item.kind = "TransportErr"
    /\ threads[last.conn]["completions"] = "running"
    /\ \E id \in Ids \ {last.conn} : threads[id]["go_to_definition"] = "running"

\* C15: a transport error consumed by a response thread gives exactly one
\* err_writeln call and no other Server call, changes nothing of the Pool
\* or of the result of a Pool call, and leaves the thread running; a thread
\* stops running only in the step where its stream ends.
C15_ErrorLine ==
    last.item.kind = "TransportErr" =>
        /\ Len(last.effects) = 1
        /\ last.effects[1].op = "err_writeln"
        /\ threads[last.conn][last.chan] = "running"

C15_LoopSurvives ==
    /\ last'.item.kind = "TransportErr" => UNCHANGED poolVars
    /\ \A id \in Ids, ch \in Chans :
          (threads[id][ch] = "running" /\ threads'[id][ch] # "running") =>
              /\ last'.conn = id
              /\ last'.chan = ch
              /\ last'.item = NoItem

C15_TransportErrors == []C15_ErrorLine /\ [][C15_LoopSurvives]_vars

\* A completions thread has consumed a transport error after a failed Pool
\* call, and is running.
C15_Witness ==
    /\ last.chan = "completions"
    /\ last.item.kind = "TransportErr"
    /\ threads[last.conn]["completions"] = "running"
    /\ ~call.ok

\* The keys and the Connection each registered key leads to are the same
\* after the step as before.
MappingKept ==
    /\ conns' = conns
    /\ \A k \in Keys : conns[k] # 0 => cs'[conns[k]] = cs[conns[k]]

\* C16: only a successful Pool::connect and a Pool::disconnect of a
\* registered key change the mapping; eval, go_to_definition and
\* update_completions, failed or not, and every step of a response thread
\* leave it as it is.
C16_MappingChanges ==
    [][~MappingKept =>
          /\ last' = ControlStep
          /\ call'.ok
          /\ \/ call'.op = "connect"
             \/ call'.op = "disconnect" /\ call'.before[call'.key] # 0]_vars

\* The thread of a registered Connection has ended on the end of its
\* stream, after a routing call that failed.
C16_Witness ==
    /\ last.chan # "control"
    /\ last.item = NoItem
    /\ conns["a"] = last.conn
    /\ call.op \in {"eval", "go_to_definition", "update_completions"}
    /\ ~call.ok

\* C17: once a Connection is dropped, each of its response threads that is
\* still running eventually stops.
C17_LoopsTerminate ==
    \A id \in Ids, ch \in Chans :
        (cs[id].status = "dropped" /\ threads[id][ch] = "running")
            ~> (threads[id][ch] # "running")

====
